---------------------------- MODULE Spec2Model ----------------------------
(***************************************************************************)
(* A model of main.py: NMEA sentence recovery and decoding, the ingestion  *)
(* scan, the track cleaner, stop/turn detection and the trip-duration      *)
(* estimator.                                                              *)
(*                                                                         *)
(* Representation.                                                         *)
(*  - A Python str is a sequence of one-character strings.                 *)
(*  - A Python float is a record [k, v]: k = "fin" with v the value in     *)
(*    ten-thousandths (1.0 is 10000), k = "inf" with v the sign, or        *)
(*    k = "nan".  Finite arithmetic is exact: the rounding of IEEE         *)
(*    doubles is not modelled.                                             *)
(*  - None is the empty sequence <<>>, any other optional value v is <<v>>.*)
(*  - A decoded coordinate is an integer number of 1/600000 degree         *)
(*    (a ten-thousandth of an arc minute).                                 *)
(*  - A datetime is its number of seconds since 2000-01-01T00:00:00.       *)
(***************************************************************************)
EXTENDS Integers, Sequences, FiniteSets, TLC

VARIABLES
    pc,          \* control position of the program
    fileNo,      \* main(): index of the file being processed
    line,        \* the str handed to split_double_sentences (recovery runs)
    sentences,   \* the list split_double_sentences returned
    scan,        \* history: the recovered sentences scanned so far in this file
    src,         \* history: src[k] is the index in scan of the sentence of points[k]
    points,      \* the Track (list of dicts)
    last_gpgga,  \* read_gps_file's local: None or the last decoded $GPGGA dict
    orig,        \* history: the Track handed to the stage that ran last
    runs,        \* history: how many times the stage under study has run
    stops,       \* detect_stops_and_turns: stops
    turns,       \* detect_stops_and_turns: turns
    ti,          \* detect_stops_and_turns: i of the second loop
    norm,        \* normalize_angle / angle_difference frame
    report,      \* what calculate_trip_duration reported
    nlines,      \* read_gps_file: how many lines of the file were read
    cfg,         \* the run's input space: which lines a file may hold, and the caps
    prevOut      \* history: the Track the stage under study returned the time before

vars == <<pc, fileNo, line, sentences, scan, src, points, last_gpgga, orig,
          runs, stops, turns, ti, norm, report, nlines, cfg, prevOut>>

---------------------------------------------------------------------------
(* Python values *)

None == <<>>

Some(v) == <<v>>

IsNone(o) == o = <<>>

Val(o) == o[1]

---------------------------------------------------------------------------
(* str *)

Whitespace == {" ", "\t"}

Digits == {"0", "1", "2", "3", "4", "5", "6", "7", "8", "9"}

Letters ==
    {"A", "B", "C", "D", "E", "F", "G", "H", "I", "J", "K", "L", "M", "N",
     "O", "P", "Q", "R", "S", "T", "U", "V", "W", "X", "Y", "Z",
     "a", "b", "c", "d", "e", "f", "h", "i", "l", "n", "o", "x", "y"}

\* The class \w of the re module.
WordChars == Letters \cup Digits \cup {"_"}

DigitVal(c) ==
    CASE c = "0" -> 0 [] c = "1" -> 1 [] c = "2" -> 2 [] c = "3" -> 3
      [] c = "4" -> 4 [] c = "5" -> 5 [] c = "6" -> 6 [] c = "7" -> 7
      [] c = "8" -> 8 [] c = "9" -> 9

\* s[a:b] of Python for 0 <= a, with b clipped to len(s) (0-based, b exclusive).
Slice(s, a, b) ==
    LET e == IF b > Len(s) THEN Len(s) ELSE b
    IN  IF a >= e THEN <<>> ELSE [k \in 1..(e - a) |-> s[a + k]]

\* s.startswith(p)
StartsWith(s, p) == Len(s) >= Len(p) /\ \A k \in 1..Len(p) : s[k] = p[k]

RECURSIVE RStripSet(_, _)
\* s.rstrip(chars)
RStripSet(s, chars) ==
    IF s # <<>> /\ s[Len(s)] \in chars
    THEN RStripSet(SubSeq(s, 1, Len(s) - 1), chars)
    ELSE s

RECURSIVE LStripSet(_, _)
LStripSet(s, chars) ==
    IF s # <<>> /\ s[1] \in chars THEN LStripSet(Tail(s), chars) ELSE s

\* s.strip()
Strip(s) == LStripSet(RStripSet(s, Whitespace), Whitespace)

RECURSIVE SplitFrom(_, _, _)
SplitFrom(s, k, cur) ==
    IF k > Len(s) THEN <<cur>>
    ELSE IF s[k] = "," THEN <<cur>> \o SplitFrom(s, k + 1, <<>>)
    ELSE SplitFrom(s, k + 1, Append(cur, s[k]))

\* s.split(',')
SplitComma(s) == SplitFrom(s, 1, <<>>)

\* s.split('.')[0]
BeforeDot(s) ==
    LET dots == {k \in 1..Len(s) : s[k] = "."}
    IN  IF dots = {} THEN s
        ELSE SubSeq(s, 1, (CHOOSE k \in dots : \A j \in dots : k <= j) - 1)

RECURSIVE JoinComma(_)
\* ','.join(fields)
JoinComma(fields) ==
    IF Len(fields) = 1 THEN fields[1]
    ELSE fields[1] \o <<",">> \o JoinComma(Tail(fields))

---------------------------------------------------------------------------
(* float and int *)

Fin(n) == [k |-> "fin", v |-> n]

PosInf == [k |-> "inf", v |-> 1]

NegInf == [k |-> "inf", v |-> -1]

NaN == [k |-> "nan", v |-> 0]

\* a < b on floats: false whenever a nan is compared.
FLt(a, b) ==
    CASE a.k = "nan" \/ b.k = "nan" -> FALSE
      [] a.k = "fin" /\ b.k = "fin" -> a.v < b.v
      [] a.k = "inf" /\ b.k = "fin" -> a.v = -1
      [] a.k = "fin" /\ b.k = "inf" -> b.v = 1
      [] a.k = "inf" /\ b.k = "inf" -> a.v < b.v

FLe(a, b) ==
    CASE a.k = "nan" \/ b.k = "nan" -> FALSE
      [] a.k = "fin" /\ b.k = "fin" -> a.v <= b.v
      [] a.k = "inf" /\ b.k = "fin" -> a.v = -1
      [] a.k = "fin" /\ b.k = "inf" -> b.v = 1
      [] a.k = "inf" /\ b.k = "inf" -> a.v <= b.v

FGt(a, b) == FLt(b, a)

FGe(a, b) == FLe(b, a)

FAdd(a, b) ==
    CASE a.k = "nan" \/ b.k = "nan" -> NaN
      [] a.k = "fin" /\ b.k = "fin" -> Fin(a.v + b.v)
      [] a.k = "inf" /\ b.k = "fin" -> a
      [] a.k = "fin" /\ b.k = "inf" -> b
      [] a.k = "inf" /\ b.k = "inf" -> IF a.v = b.v THEN a ELSE NaN

FNeg(a) == IF a.k = "nan" THEN a ELSE [a EXCEPT !.v = -a.v]

FSub(a, b) == FAdd(a, FNeg(b))

RECURSIVE DigitsValue(_)
\* the number a non-empty string of digits denotes
DigitsValue(s) ==
    IF s = <<>> THEN 0
    ELSE 10 * DigitsValue(SubSeq(s, 1, Len(s) - 1)) + DigitVal(s[Len(s)])

AllDigits(s) == \A k \in 1..Len(s) : s[k] \in Digits

Pow10(n) == CASE n = 0 -> 1 [] n = 1 -> 10 [] n = 2 -> 100 [] n = 3 -> 1000 [] n = 4 -> 10000

\* How many decimals a decimal literal may carry to be exact in ten-thousandths.
FracDigits == 2 + 2

\* 1.0 as a finite float
One == Pow10(FracDigits)

\* float(s) for an unsigned decimal literal (digits, at most one '.', at least
\* one digit, up to FracDigits decimals): None stands for ValueError.
ParseUnsigned(s) ==
    LET dots == {k \in 1..Len(s) : s[k] = "."}
    IN  IF dots = {}
        THEN IF s # <<>> /\ AllDigits(s) THEN Some(DigitsValue(s) * Pow10(FracDigits)) ELSE None
        ELSE IF Cardinality(dots) > 1 THEN None
        ELSE LET d  == CHOOSE k \in dots : TRUE
                 ip == SubSeq(s, 1, d - 1)
                 fp == SubSeq(s, d + 1, Len(s))
             IN  IF AllDigits(ip) /\ AllDigits(fp) /\ Len(ip) + Len(fp) > 0
                    /\ Len(fp) <= FracDigits
                 THEN Some(DigitsValue(ip) * Pow10(FracDigits)
                           + DigitsValue(fp) * Pow10(FracDigits - Len(fp)))
                 ELSE None

\* The definitions below hand every intermediate value on as a parameter
\* instead of naming it in a LET: each value is then computed in one place.

\* the literal without its sign
SignedBody(t) == IF t # <<>> /\ t[1] \in {"-", "+"} THEN Tail(t) ELSE t

IsNegative(t) == t # <<>> /\ t[1] = "-"

\* o if it is not None, else d
OrElse(o, d) == IF IsNone(o) THEN d ELSE Val(o)

FloatOfUnsigned(u, neg) ==
    IF IsNone(u) THEN None ELSE Some(Fin(IF neg THEN -Val(u) ELSE Val(u)))

FloatLiteral(t) ==
    IF SignedBody(t) = <<"i", "n", "f">> THEN Some(IF IsNegative(t) THEN NegInf ELSE PosInf)
    ELSE IF SignedBody(t) = <<"n", "a", "n">> THEN Some(NaN)
    ELSE FloatOfUnsigned(ParseUnsigned(SignedBody(t)), IsNegative(t))

\* float(s): None stands for ValueError.  Decimal literals with an optional
\* sign, and the literals inf and nan; float() strips surrounding whitespace.
ParseFloat(str) == FloatLiteral(Strip(str))

IntLiteral(t) ==
    IF SignedBody(t) # <<>> /\ AllDigits(SignedBody(t))
    THEN Some(IF IsNegative(t) THEN -DigitsValue(SignedBody(t)) ELSE DigitsValue(SignedBody(t)))
    ELSE None

\* int(s): None stands for ValueError.
ParseInt(str) == IntLiteral(Strip(str))

\* int(x) of a finite float given as a ratio a / b, b > 0: truncation to zero.
TruncDiv(a, b) == IF a >= 0 THEN a \div b ELSE -((-a) \div b)

---------------------------------------------------------------------------
(* datetime *)

IsLeap(y) == y % 4 = 0

DaysInMonth(y, m) ==
    CASE m \in {1, 3, 5, 7, 8, 10, 12} -> 31
      [] m \in {4, 6, 9, 11} -> 30
      [] m = 2 -> IF IsLeap(y) THEN 29 ELSE 28

RECURSIVE DaysBeforeMonth(_, _)
DaysBeforeMonth(y, m) ==
    IF m = 1 THEN 0 ELSE DaysBeforeMonth(y, m - 1) + DaysInMonth(y, m - 1)

\* days from 2000-01-01 to the first of January of y (1901 <= y <= 2099)
DaysBeforeYear(y) ==
    IF y >= 2000
    THEN (y - 2000) * 365 + ((y - 2000) + 3) \div 4
    ELSE -((2000 - y) * 365 + (2000 - y) \div 4)

\* datetime(y, m, d, H, M, S) as seconds since 2000-01-01T00:00:00
MkDatetime(y, m, d, H, M, S) ==
    (DaysBeforeYear(y) + DaysBeforeMonth(y, m) + (d - 1)) * 86400
        + H * 3600 + M * 60 + S

\* datetime.strptime(s, '%d%m%y%H%M%S'): None stands for ValueError.  Modelled
\* for strings that are twelve digits (two per directive) and for strings that
\* hold a character that is no digit, which no directive matches.
Strptime(s) ==
    IF Len(s) # 12 \/ ~AllDigits(s) THEN None
    ELSE LET two(k) == DigitsValue(SubSeq(s, k, k + 1))
             d  == two(1)
             m  == two(3)
             yy == two(5)
             H  == two(7)
             M  == two(9)
             S  == two(11)
             y  == IF yy < 69 THEN 2000 + yy ELSE 1900 + yy
         IN  IF m \in 1..12 /\ d >= 1 /\ H <= 23 /\ M <= 59 /\ S <= 59
                /\ d <= DaysInMonth(y, m)
             THEN Some(MkDatetime(y, m, d, H, M, S))
             ELSE None

---------------------------------------------------------------------------
(* Coordinate codec *)

\* lines 288-304, on the float f that float(coord_str) gave (None: ValueError).
\* int() of inf or nan raises, which the bare except turns to None.
DecimalDegrees(f, direction) ==
    IF IsNone(f) \/ Val(f).k # "fin" THEN None
    ELSE LET coord_float == Val(f).v
             degrees == TruncDiv(coord_float, 100 * One)
             minutes == coord_float - degrees * 100 * One
             decimal == degrees * 60 * One + minutes
         IN  Some(IF direction \in {<<"S">>, <<"W">>} THEN -decimal ELSE decimal)

\* parse_nmea_coordinate: None, or the decimal degrees in 1/600000 degree.
parse_nmea_coordinate(coord_str, direction) ==
    IF coord_str = <<>> \/ direction = <<>> THEN None
    ELSE DecimalDegrees(ParseFloat(coord_str), direction)

---------------------------------------------------------------------------
(* Sentence recovery *)

\* re.finditer(r'\$GP\w{3}', line): the 1-based starts of the matches.  A match
\* holds no '$' after its first character, so no two candidate matches overlap
\* and the matches are all the places where the pattern fits.
MarkerStarts(s) ==
    {k \in 1..(Len(s) - 5) :
        /\ s[k] = "$" /\ s[k + 1] = "G" /\ s[k + 2] = "P"
        /\ \A j \in 3..5 : s[k + j] \in WordChars}

\* the elements of a finite set of integers in increasing order
RECURSIVE SortedSeq(_)
SortedSeq(S) ==
    IF S = {} THEN <<>>
    ELSE LET m == CHOOSE x \in S : \A y \in S : x <= y
         IN  <<m>> \o SortedSeq(S \ {m})

\* lines 265-266: a sentence is kept when it is not blank
KeepNonEmpty(stripped) == IF stripped # <<>> THEN <<stripped>> ELSE <<>>

RECURSIVE SplitMatchesKeepsStar(_, _, _)
\* The loop without the rstrip('*') of line 260.
SplitMatchesKeepsStar(s, matches, i) ==
    IF i > Len(matches) THEN <<>>
    ELSE KeepNonEmpty(Strip(IF i < Len(matches)
                            THEN SubSeq(s, matches[i], matches[i + 1] - 1)
                            ELSE SubSeq(s, matches[i], Len(s))))
             \o SplitMatchesKeepsStar(s, matches, i + 1)

RECURSIVE SplitMatches(_, _, _)
\* the loop of split_double_sentences over enumerate(matches), from index i
SplitMatches(s, matches, i) ==
    IF i > Len(matches) THEN <<>>
    ELSE KeepNonEmpty(Strip(IF i < Len(matches)
                            THEN RStripSet(SubSeq(s, matches[i], matches[i + 1] - 1), {"*"})
                            ELSE SubSeq(s, matches[i], Len(s))))
             \o SplitMatches(s, matches, i + 1)

\* lines 250-271, on the list of the matches' starts
SplitAt(s, matches) ==
    IF Len(matches) = 1 THEN <<s>>
    ELSE IF Len(matches) >= 2 THEN SplitMatches(s, matches, 1)
    ELSE <<s>>

split_double_sentences(s) == SplitAt(s, SortedSeq(MarkerStarts(s)))

---------------------------------------------------------------------------
(* Sentence decoders *)

\* lines 346-350
SpeedOf(speed_knots) ==
    IF speed_knots = <<>> THEN Fin(0) ELSE OrElse(ParseFloat(speed_knots), Fin(0))

\* lines 352-355
HeadingOf(course) == IF course = <<>> THEN None ELSE ParseFloat(course)

\* lines 343-370
GprmcDict(lat, lon, speed, heading, dt) ==
    IF IsNone(lat) \/ IsNone(lon) THEN None
    ELSE Some([lat |-> Val(lat),
               lon |-> Val(lon),
               speed |-> speed,
               heading |-> heading,
               datetime |-> dt,
               hdop |-> None,
               sats |-> None,
               fix |-> None])

\* lines 322-370, on the fields of the sentence
GprmcFields(parts) ==
    IF Len(parts) < 10 \/ parts[3] # <<"A">> THEN None
    ELSE LET time_str    == parts[2]
             lat_str     == parts[4]
             lat_dir     == parts[5]
             lon_str     == parts[6]
             lon_dir     == parts[7]
             speed_knots == parts[8]
             course      == parts[9]
             date_str    == parts[10]
         IN  IF \E f \in {time_str, lat_str, lat_dir, lon_str, lon_dir, date_str} : f = <<>>
             THEN None
             ELSE GprmcDict(parse_nmea_coordinate(lat_str, lat_dir),
                            parse_nmea_coordinate(lon_str, lon_dir),
                            SpeedOf(speed_knots),
                            HeadingOf(course),
                            Strptime(date_str \o BeforeDot(time_str)))

\* parse_gprmc: None or the dict of one fix (its quality keys not yet set).
parse_gprmc(s) == GprmcFields(SplitComma(Strip(s)))

\* lines 406-414: an int field, 0 when it is empty or no int
IntOrZero(field) == IF field = <<>> THEN 0 ELSE OrElse(ParseInt(field), 0)

\* lines 416-419
HdopOf(field) == IF field = <<>> THEN None ELSE ParseFloat(field)

\* lines 402-428
GpggaDict(lat, lon, fix_quality, num_sats, hdop) ==
    IF IsNone(lat) \/ IsNone(lon) THEN None
    ELSE Some([lat |-> Val(lat),
               lon |-> Val(lon),
               fix |-> fix_quality,
               sats |-> num_sats,
               hdop |-> hdop])

\* lines 383-428, on the fields of the sentence
GpggaFields(parts) ==
    IF Len(parts) < 10 THEN None
    ELSE LET lat_str == parts[3]
             lat_dir == parts[4]
             lon_str == parts[5]
             lon_dir == parts[6]
         IN  IF \E f \in {lat_str, lat_dir, lon_str, lon_dir} : f = <<>> THEN None
             ELSE GpggaDict(parse_nmea_coordinate(lat_str, lat_dir),
                            parse_nmea_coordinate(lon_str, lon_dir),
                            IntOrZero(parts[7]),
                            IntOrZero(parts[8]),
                            HdopOf(parts[9]))

\* parse_gpgga: None or the dict of one quality fragment.
parse_gpgga(s) == GpggaFields(SplitComma(Strip(s)))

---------------------------------------------------------------------------
(* Geometry *)

Abs(x) == IF x >= 0 THEN x ELSE -x

\* haversine_distance between fixes of one meridian (dlon = 0), where the
\* formula reduces to R * |dlat|: a = sin(dlat/2)^2, c = |dlat|.  With lat in
\* 1/600000 degree, R = 6371 km and pi taken as 355/113 the distance is
\* |dlat| * 6371 * 71 in units of 1/(21600 * 113) metre.  No case is given for
\* fixes of different meridians: the model's tracks do not hold any.
haversine_distance(lat1, lon1, lat2, lon2) ==
    CASE lon1 = lon2 -> Abs(lat2 - lat1) * 6371 * 71

\* the distance units of one metre
MetreUnits == 21600 * 113

\* the distance units per second of one km/h (MetreUnits * 1000 / 3600)
KmhUnits == 6000 * 113

---------------------------------------------------------------------------
(* Track cleaner *)

RECURSIVE FirstMoving(_, _)
\* the loop of lines 32-38, from 0-based index i: None or the index found
FirstMoving(pts, i) ==
    IF i >= Len(pts) THEN None
    ELSE IF FGe(pts[i + 1].speed, Fin(One)) THEN Some(i)
    ELSE FirstMoving(pts, i + 1)

RECURSIVE LastMoving(_, _)
\* the loop of lines 41-47, from 0-based index j downwards
LastMoving(pts, j) ==
    IF j < 0 THEN None
    ELSE IF FGe(pts[j + 1].speed, Fin(One)) THEN Some(j)
    ELSE LastMoving(pts, j - 1)

\* The slice without its last element: points[first_moving:last_moving].
trim_stationary_edgesDropsLast(pts) ==
    IF pts = <<>> THEN pts
    ELSE IF IsNone(FirstMoving(pts, 0)) \/ IsNone(LastMoving(pts, Len(pts) - 1)) THEN pts
    ELSE Slice(pts, Val(FirstMoving(pts, 0)), Val(LastMoving(pts, Len(pts) - 1)))

trim_stationary_edges(pts) ==
    IF pts = <<>> THEN pts
    ELSE LET n == Len(pts)
             first_moving == FirstMoving(pts, 0)
             last_moving  == LastMoving(pts, n - 1)
         IN  IF IsNone(first_moving) \/ IsNone(last_moving) THEN pts
             ELSE Slice(pts, Val(first_moving), Val(last_moving) + 1)

\* The test without the check of dt <= 0 (lines 545-547).
OutlierAcceptsNoElapsedTest(prev, curr, max_speed_kmh) ==
    IF IsNone(prev.datetime) \/ IsNone(curr.datetime) THEN TRUE
    ELSE ~(haversine_distance(prev.lat, prev.lon, curr.lat, curr.lon)
               > (Val(curr.datetime) - Val(prev.datetime)) * max_speed_kmh * KmhUnits)

\* lines 538-557: whether curr is accepted after prev
OutlierAccepts(prev, curr, max_speed_kmh) ==
    IF IsNone(prev.datetime) \/ IsNone(curr.datetime) THEN TRUE
    ELSE IF Val(curr.datetime) - Val(prev.datetime) <= 0 THEN FALSE
    ELSE ~(haversine_distance(prev.lat, prev.lon, curr.lat, curr.lon)
               > (Val(curr.datetime) - Val(prev.datetime)) * max_speed_kmh * KmhUnits)

RECURSIVE OutlierLoopPrevInput(_, _, _, _)
\* The loop with prev = points[i - 1], the previous input fix, accepted or not.
OutlierLoopPrevInput(pts, i, cleaned, max_speed_kmh) ==
    IF i > Len(pts) THEN cleaned
    ELSE IF OutlierAccepts(pts[i - 1], pts[i], max_speed_kmh)
    THEN OutlierLoopPrevInput(pts, i + 1, Append(cleaned, pts[i]), max_speed_kmh)
    ELSE OutlierLoopPrevInput(pts, i + 1, cleaned, max_speed_kmh)

RECURSIVE OutlierLoop(_, _, _, _)
\* the loop of lines 534-557 from (1-based) index i, with prev = cleaned[-1]
OutlierLoop(pts, i, cleaned, max_speed_kmh) ==
    IF i > Len(pts) THEN cleaned
    ELSE IF OutlierAccepts(cleaned[Len(cleaned)], pts[i], max_speed_kmh)
    THEN OutlierLoop(pts, i + 1, Append(cleaned, pts[i]), max_speed_kmh)
    ELSE OutlierLoop(pts, i + 1, cleaned, max_speed_kmh)

filter_position_outliers(pts, max_speed_kmh) ==
    IF Len(pts) < 2 THEN pts
    ELSE OutlierLoop(pts, 2, <<pts[1]>>, max_speed_kmh)

\* The tests with sats <= min_sats for sats < min_sats (line 592).
QualityKeepsSatsAtMost(p, hdop_threshold, min_sats, require_fix) ==
    IF IsNone(p.hdop) /\ IsNone(p.sats) /\ IsNone(p.fix) THEN TRUE
    ELSE IF ~IsNone(p.hdop) /\ FGt(Val(p.hdop), hdop_threshold) THEN FALSE
    ELSE IF ~IsNone(p.sats) /\ Val(p.sats) <= min_sats THEN FALSE
    ELSE IF require_fix /\ ~IsNone(p.fix) /\ Val(p.fix) < 1 THEN FALSE
    ELSE TRUE

\* whether filter_by_quality keeps p
QualityKeeps(p, hdop_threshold, min_sats, require_fix) ==
    IF IsNone(p.hdop) /\ IsNone(p.sats) /\ IsNone(p.fix) THEN TRUE
    ELSE IF ~IsNone(p.hdop) /\ FGt(Val(p.hdop), hdop_threshold) THEN FALSE
    ELSE IF ~IsNone(p.sats) /\ Val(p.sats) < min_sats THEN FALSE
    ELSE IF require_fix /\ ~IsNone(p.fix) /\ Val(p.fix) < 1 THEN FALSE
    ELSE TRUE

RECURSIVE QualityLoop(_, _, _, _)
QualityLoop(pts, hdop_threshold, min_sats, require_fix) ==
    IF pts = <<>> THEN <<>>
    ELSE (IF QualityKeeps(Head(pts), hdop_threshold, min_sats, require_fix)
          THEN <<Head(pts)>> ELSE <<>>)
             \o QualityLoop(Tail(pts), hdop_threshold, min_sats, require_fix)

filter_by_quality(pts, hdop_threshold, min_sats, require_fix) ==
    IF pts = <<>> THEN pts
    ELSE QualityLoop(pts, hdop_threshold, min_sats, require_fix)

---------------------------------------------------------------------------
(* Event detector *)

\* the constants of detect_stops_and_turns
speed_threshold == Fin(One)

min_speed_for_heading == Fin(5 * One)

turn_threshold == Fin(25 * One)

window_size == 10

RECURSIVE StopsLoopEveryStationary(_, _)
\* The first loop without the test of line 631: every stationary sample is flagged.
StopsLoopEveryStationary(pts, i) ==
    IF i >= Len(pts) THEN <<>>
    ELSE (IF FLt(pts[i + 1].speed, speed_threshold) THEN <<i>> ELSE <<>>)
             \o StopsLoopEveryStationary(pts, i + 1)

RECURSIVE StopsLoop(_, _)
\* the first loop of detect_stops_and_turns from 0-based index i
StopsLoop(pts, i) ==
    IF i >= Len(pts) THEN <<>>
    ELSE (IF FLt(pts[i + 1].speed, speed_threshold)
             /\ i > 0 /\ FGe(pts[i].speed, speed_threshold)
          THEN <<i>> ELSE <<>>)
             \o StopsLoop(pts, i + 1)

RECURSIVE SumSpeedTo(_, _)
\* the sum of the speeds of the first n fixes, added from the left: total is
\* the sum before fix n
SumSpeedTo(pts, n) ==
    IF n = 0 THEN Fin(0)
    ELSE CHOOSE r \in {FAdd(total, pts[n].speed) : total \in {SumSpeedTo(pts, n - 1)}} : TRUE

\* sum(p['speed'] for p in pts)
SumSpeed(pts) == SumSpeedTo(pts, Len(pts))

\* points[i-window_size : i+1]
Window(pts, i) == Slice(pts, i - window_size, i + 1)

RECURSIVE MovingPoints(_)
MovingPoints(w) ==
    IF w = <<>> THEN <<>>
    ELSE (IF FGt(Head(w).speed, min_speed_for_heading) /\ ~IsNone(Head(w).heading)
          THEN <<Head(w)>> ELSE <<>>)
             \o MovingPoints(Tail(w))

\* whether iteration i of the second loop reaches angle_difference
ReachesAngle(pts, i) ==
    LET w == Window(pts, i)
    IN  /\ ~FLt(SumSpeed(w), Fin((window_size + 1) * 5 * One))
        /\ ~(IsNone(pts[i - window_size + 1].heading) \/ IsNone(pts[i + 1].heading))
        /\ Len(MovingPoints(w)) >= 3

\* lines 511-514 of angle_difference, on the two normalized headings
WrapDiff(prev, curr) ==
    LET diff == FSub(curr, prev)
    IN  IF FLt(diff, Fin(-180 * One)) THEN FAdd(diff, Fin(360 * One))
        ELSE IF FGt(diff, Fin(180 * One)) THEN FSub(diff, Fin(360 * One))
        ELSE diff

\* Lines 659-669 without the search for a nearby turn.
MarkTurnNoDedup(trns, i, total_turn) ==
    IF FLt(total_turn, FNeg(turn_threshold)) THEN Append(trns, i) ELSE trns

\* lines 659-669: turns after iteration i with the given total_turn
MarkTurn(trns, i, total_turn) ==
    IF FLt(total_turn, FNeg(turn_threshold))
       /\ ~\E k \in 1..Len(trns) : Abs(trns[k] - i) < window_size
    THEN Append(trns, i)
    ELSE trns

---------------------------------------------------------------------------
(* Duration estimator *)

RECURSIVE FirstDatetime(_)
\* the loop of lines 102-105
FirstDatetime(pts) ==
    IF pts = <<>> THEN None
    ELSE IF ~IsNone(Head(pts).datetime) THEN Head(pts).datetime
    ELSE FirstDatetime(Tail(pts))

\* The datetime of the last fix, present or not.
LastDatetimeOfLastFix(pts) == IF pts = <<>> THEN None ELSE pts[Len(pts)].datetime

RECURSIVE LastDatetime(_)
\* the loop of lines 109-112
LastDatetime(pts) ==
    IF pts = <<>> THEN None
    ELSE IF ~IsNone(pts[Len(pts)].datetime) THEN pts[Len(pts)].datetime
    ELSE LastDatetime(SubSeq(pts, 1, Len(pts) - 1))

\* The gap of one edge without the distance test of lines 158 and 179.
EdgeGapNoDistance(pts, speeds, a, b) ==
    IF speeds # <<>> /\ FGe(SumSpeed(speeds), Fin(5 * One * Len(speeds)))
       /\ Len(pts) >= 10
       /\ FGt(SumSpeed(speeds), Fin(0))
    THEN 5
    ELSE 0

\* lines 145-161 and 166-182: the gap of one edge, in seconds; speeds are those
\* of the 5 samples at the edge, a and b the two fixes 10 samples apart.
EdgeGap(pts, speeds, a, b) ==
    IF speeds # <<>> /\ FGe(SumSpeed(speeds), Fin(5 * One * Len(speeds)))
       /\ Len(pts) >= 10
       /\ haversine_distance(pts[a].lat, pts[a].lon, pts[b].lat, pts[b].lon) > MetreUnits
       /\ FGt(SumSpeed(speeds), Fin(0))
    THEN 5
    ELSE 0

\* calculate_trip_duration: what it reports
calculate_trip_duration(pts) ==
    IF pts = <<>> THEN [status |-> "no_points"]
    ELSE LET start_dt  == FirstDatetime(pts)
             finish_dt == LastDatetime(pts)
         IN  IF IsNone(start_dt) \/ IsNone(finish_dt) THEN [status |-> "unavailable"]
             ELSE LET n == Len(pts)
                      check_window == IF n < 5 THEN n ELSE 5
                      start_gap == EdgeGap(pts, SubSeq(pts, 1, check_window), 1, 10)
                      end_gap   == EdgeGap(pts, SubSeq(pts, n - check_window + 1, n), n - 9, n)
                      total_seconds == Val(finish_dt) - Val(start_dt)
                  IN  [status |-> "ok",
                       start |-> Val(start_dt),
                       finish |-> Val(finish_dt),
                       total_seconds |-> total_seconds,
                       estimated_start_gap |-> start_gap,
                       estimated_end_gap |-> end_gap,
                       estimated_total_seconds |->
                           IF start_gap + end_gap > 0
                           THEN Some(total_seconds + start_gap + end_gap)
                           ELSE None]

---------------------------------------------------------------------------
(* Track ingestor *)

TagGP == <<"$", "G", "P">>

TagGPRMC == <<"$", "G", "P", "R", "M", "C">>

TagGPGGA == <<"$", "G", "P", "G", "G", "A">>

\* A merge by data.update(last_gpgga): the fragment's lat and lon come along.
MergeQualityUpdatesAll(data, last) ==
    IF ~IsNone(data) /\ ~IsNone(last)
    THEN Some([Val(data) EXCEPT !.hdop = Val(last).hdop,
                                !.sats = Some(Val(last).sats),
                                !.fix = Some(Val(last).fix),
                                !.lat = Val(last).lat,
                                !.lon = Val(last).lon])
    ELSE data

\* lines 465-469: the quality keys of the fix are set from last_gpgga
MergeQuality(data, last) ==
    IF ~IsNone(data) /\ ~IsNone(last)
    THEN Some([Val(data) EXCEPT !.hdop = Val(last).hdop,
                                !.sats = Some(Val(last).sats),
                                !.fix = Some(Val(last).fix)])
    ELSE data

\* lines 471-472.  acc holds points and last_gpgga, and the history scan and
\* src; seen is the history with the sentence at hand.
AppendFix(acc, seen, data) ==
    IF ~IsNone(data)
    THEN [acc EXCEPT !.scan = seen,
                     !.points = Append(acc.points, Val(data)),
                     !.src = Append(acc.src, Len(seen))]
    ELSE [acc EXCEPT !.scan = seen]

\* lines 476-477
RememberGga(acc, seen, gga) ==
    IF ~IsNone(gga) THEN [acc EXCEPT !.scan = seen, !.last = gga]
    ELSE [acc EXCEPT !.scan = seen]

\* lines 462-477: the scan state after one recovered sentence
ScanSentence(acc, sentence) ==
    IF StartsWith(sentence, TagGPRMC)
    THEN AppendFix(acc, Append(acc.scan, sentence),
                   MergeQuality(parse_gprmc(sentence), acc.last))
    ELSE IF StartsWith(sentence, TagGPGGA)
    THEN RememberGga(acc, Append(acc.scan, sentence), parse_gpgga(sentence))
    ELSE [acc EXCEPT !.scan = Append(acc.scan, sentence)]

RECURSIVE ScanSentences(_, _)
\* the loop of line 460
ScanSentences(acc, sents) ==
    IF sents = <<>> THEN acc
    ELSE ScanSentences(ScanSentence(acc, Head(sents)), Tail(sents))

\* lines 449-477, on the stripped line
ScanStripped(acc, stripped) ==
    IF stripped = <<>> \/ ~StartsWith(stripped, TagGP) THEN acc
    ELSE ScanSentences(acc, split_double_sentences(stripped))

\* lines 444-477: one iteration of the loop over the file's lines
ScanLine(acc, raw) == ScanStripped(acc, Strip(raw))

---------------------------------------------------------------------------
(* The lines a file may hold *)

\* "$GPRMC,144904.500,A,4308.4726,N,07726.4348,W,0.16,53.46,010525,,,A*42"
LineRmcA ==
    <<"$", "G", "P", "R", "M", "C", ",", "1", "4", "4", "9", "0", "4", ".",
      "5", "0", "0", ",", "A", ",", "4", "3", "0", "8", ".", "4", "7", "2",
      "6", ",", "N", ",", "0", "7", "7", "2", "6", ".", "4", "3", "4", "8",
      ",", "W", ",", "0", ".", "1", "6", ",", "5", "3", ".", "4", "6", ",",
      "0", "1", "0", "5", "2", "5", ",", ",", ",", "A", "*", "4", "2">>

\* "$GPRMC,144905.500,A,4308.4800,N,07726.4348,W,-1.00,400.00,010525,,,A*42"
LineRmcOdd ==
    <<"$", "G", "P", "R", "M", "C", ",", "1", "4", "4", "9", "0", "5", ".",
      "5", "0", "0", ",", "A", ",", "4", "3", "0", "8", ".", "4", "8", "0",
      "0", ",", "N", ",", "0", "7", "7", "2", "6", ".", "4", "3", "4", "8",
      ",", "W", ",", "-", "1", ".", "0", "0", ",", "4", "0", "0", ".", "0",
      "0", ",", "0", "1", "0", "5", "2", "5", ",", ",", ",", "A", "*", "4",
      "2">>

\* "$GPRMC,144906.500,V,4308.4726,N,07726.4348,W,0.16,53.46,010525,,,A*42"
LineRmcVoid ==
    <<"$", "G", "P", "R", "M", "C", ",", "1", "4", "4", "9", "0", "6", ".",
      "5", "0", "0", ",", "V", ",", "4", "3", "0", "8", ".", "4", "7", "2",
      "6", ",", "N", ",", "0", "7", "7", "2", "6", ".", "4", "3", "4", "8",
      ",", "W", ",", "0", ".", "1", "6", ",", "5", "3", ".", "4", "6", ",",
      "0", "1", "0", "5", "2", "5", ",", ",", ",", "A", "*", "4", "2">>

\* "$GPRMC,144907.500,A,4308.4900,N,07726.4348,W,,,xx0525,,,A*42"
LineRmcBare ==
    <<"$", "G", "P", "R", "M", "C", ",", "1", "4", "4", "9", "0", "7", ".",
      "5", "0", "0", ",", "A", ",", "4", "3", "0", "8", ".", "4", "9", "0",
      "0", ",", "N", ",", "0", "7", "7", "2", "6", ".", "4", "3", "4", "8",
      ",", "W", ",", ",", ",", "x", "x", "0", "5", "2", "5", ",", ",", ",",
      "A", "*", "4", "2">>

\* "$GPGGA,144904.750,4308.4726,N,07726.4349,W,1,05,1.80,162.6,M,-34.4,M,,*57"
LineGgaA ==
    <<"$", "G", "P", "G", "G", "A", ",", "1", "4", "4", "9", "0", "4", ".",
      "7", "5", "0", ",", "4", "3", "0", "8", ".", "4", "7", "2", "6", ",",
      "N", ",", "0", "7", "7", "2", "6", ".", "4", "3", "4", "9", ",", "W",
      ",", "1", ",", "0", "5", ",", "1", ".", "8", "0", ",", "1", "6", "2",
      ".", "6", ",", "M", ",", "-", "3", "4", ".", "4", ",", "M", ",", ",",
      "*", "5", "7">>

\* "$GPGGA,144905.750,4308.4727,S,07726.4350,W,,,,162.6,M,-34.4,M,,*57"
LineGgaB ==
    <<"$", "G", "P", "G", "G", "A", ",", "1", "4", "4", "9", "0", "5", ".",
      "7", "5", "0", ",", "4", "3", "0", "8", ".", "4", "7", "2", "7", ",",
      "S", ",", "0", "7", "7", "2", "6", ".", "4", "3", "5", "0", ",", "W",
      ",", ",", ",", ",", "1", "6", "2", ".", "6", ",", "M", ",", "-", "3",
      "4", ".", "4", ",", "M", ",", ",", "*", "5", "7">>

\* "$GPGGA,144906.750,,N,07726.4349,W,1,05,1.80,162.6"
LineGgaBad ==
    <<"$", "G", "P", "G", "G", "A", ",", "1", "4", "4", "9", "0", "6", ".",
      "7", "5", "0", ",", ",", "N", ",", "0", "7", "7", "2", "6", ".", "4",
      "3", "4", "9", ",", "W", ",", "1", ",", "0", "5", ",", "1", ".", "8",
      "0", ",", "1", "6", "2", ".", "6">>

\* "$GPRMC,144908.250,A,4308.4750,N,07726.4348,W,2.54,313.60,010525$GPGGA,144908.500,4308.4751,N,07726.4349,W,1,04,2.05,75.7,M,-34.4,M,,*67"
LineDoubleRmcGga ==
    <<"$", "G", "P", "R", "M", "C", ",", "1", "4", "4", "9", "0", "8", ".",
      "2", "5", "0", ",", "A", ",", "4", "3", "0", "8", ".", "4", "7", "5",
      "0", ",", "N", ",", "0", "7", "7", "2", "6", ".", "4", "3", "4", "8",
      ",", "W", ",", "2", ".", "5", "4", ",", "3", "1", "3", ".", "6", "0",
      ",", "0", "1", "0", "5", "2", "5", "$", "G", "P", "G", "G", "A", ",",
      "1", "4", "4", "9", "0", "8", ".", "5", "0", "0", ",", "4", "3", "0",
      "8", ".", "4", "7", "5", "1", ",", "N", ",", "0", "7", "7", "2", "6",
      ".", "4", "3", "4", "9", ",", "W", ",", "1", ",", "0", "4", ",", "2",
      ".", "0", "5", ",", "7", "5", ".", "7", ",", "M", ",", "-", "3", "4",
      ".", "4", ",", "M", ",", ",", "*", "6", "7">>

\* "$GPGGA,144909.000,4308.4760,N,07726.4349,W,2,09,0.90,75.7,M,-34.4,M,,*$GPRMC,144909.250,A,4308.4760,N,07726.4348,W,1.50,10.00,010525"
LineDoubleGgaRmc ==
    <<"$", "G", "P", "G", "G", "A", ",", "1", "4", "4", "9", "0", "9", ".",
      "0", "0", "0", ",", "4", "3", "0", "8", ".", "4", "7", "6", "0", ",",
      "N", ",", "0", "7", "7", "2", "6", ".", "4", "3", "4", "9", ",", "W",
      ",", "2", ",", "0", "9", ",", "0", ".", "9", "0", ",", "7", "5", ".",
      "7", ",", "M", ",", "-", "3", "4", ".", "4", ",", "M", ",", ",", "*",
      "$", "G", "P", "R", "M", "C", ",", "1", "4", "4", "9", "0", "9", ".",
      "2", "5", "0", ",", "A", ",", "4", "3", "0", "8", ".", "4", "7", "6",
      "0", ",", "N", ",", "0", "7", "7", "2", "6", ".", "4", "3", "4", "8",
      ",", "W", ",", "1", ".", "5", "0", ",", "1", "0", ".", "0", "0", ",",
      "0", "1", "0", "5", "2", "5">>

\* ""
LineBlank ==
    <<>>

\* "hello"
LineNoise ==
    <<"h", "e", "l", "l", "o">>

\* "$GPGSA,A,3,04,05"
LineGsa ==
    <<"$", "G", "P", "G", "S", "A", ",", "A", ",", "3", ",", "0", "4", ",",
      "0", "5">>

\* " \t$GPRMC,144910.000,A,4308.4770,N,07726.4348,W,0.50,,010525 "
LinePadded ==
    <<" ", "\t", "$", "G", "P", "R", "M", "C", ",", "1", "4", "4", "9",
      "1", "0", ".", "0", "0", "0", ",", "A", ",", "4", "3", "0", "8", ".",
      "4", "7", "7", "0", ",", "N", ",", "0", "7", "7", "2", "6", ".", "4",
      "3", "4", "8", ",", "W", ",", "0", ".", "5", "0", ",", ",", "0", "1",
      "0", "5", "2", "5", " ">>

IngestLines ==
    {LineRmcA,
     LineRmcOdd,
     LineRmcVoid,
     LineRmcBare,
     LineGgaA,
     LineGgaB,
     LineGgaBad,
     LineDoubleRmcGga,
     LineDoubleGgaRmc,
     LineBlank,
     LineNoise,
     LineGsa,
     LinePadded}

\* how many lines the file of the pipeline runs holds at most: enough for one
\* window of the turn detector
MaxPipeLines == 11

DigitChar(d) ==
    CASE d = 0 -> "0" [] d = 1 -> "1" [] d = 2 -> "2" [] d = 3 -> "3" [] d = 4 -> "4"
      [] d = 5 -> "5" [] d = 6 -> "6" [] d = 7 -> "7" [] d = 8 -> "8" [] d = 9 -> "9"

\* "$GPRMC,0000SS,A,4308.4726,N,07726.4348,W,6.00,<course>,010121" with SS = k:
\* the vehicle reports 6 knots at one place, one sentence per second
PipeLine(k, course) ==
    JoinComma(<<TagGPRMC,
                <<"0", "0", "0", "0", DigitChar(k \div 10), DigitChar(k % 10)>>,
                <<"A">>,
                <<"4", "3", "0", "8", ".", "4", "7", "2", "6">>, <<"N">>,
                <<"0", "7", "7", "2", "6", ".", "4", "3", "4", "8">>, <<"W">>,
                <<"6", ".", "0", "0">>,
                course,
                <<"0", "1", "0", "1", "2", "1">>>>)

\* the courses line k (from 0) of a pipeline run may report: 20 degrees; "inf" on
\* the first line; -30 degrees on the last line but one
PipeCourses(k) ==
    {<<"2", "0", ".", "0", "0">>}
        \cup (IF k = 0 THEN {<<"i", "n", "f">>} ELSE {})
        \cup (IF k + 2 = MaxPipeLines THEN {<<"-", "3", "0", ".", "0", "0">>} ELSE {})

\* the lines line k (from 0) of a file may be, in the runs of the given kind
InputLines(kind, k) ==
    CASE kind = "ingest" -> IngestLines
      [] kind = "pipeline" ->
             {PipeLine(k, course) : course \in PipeCourses(k)}
                 \cup (IF k = 1 THEN {LineNoise} ELSE {})

---------------------------------------------------------------------------
(* The program: main -> process_gps_file -> the stages *)

NormIdle == [angle |-> Fin(0), prev |-> Fin(0), curr |-> Fin(0), tick |-> 0]

NoReport == [status |-> "none"]

\* The next file opened with last_gpgga kept from the previous file (a
\* fragment cursor shared by the files).
OpenFileSharedFragment ==
    /\ pc = "main"
    /\ fileNo < cfg.maxFiles
    /\ fileNo' = fileNo + 1
    /\ points' = <<>>
    /\ scan' = <<>>
    /\ src' = <<>>
    /\ nlines' = 0
    /\ orig' = <<>>
    /\ runs' = 0
    /\ stops' = <<>>
    /\ turns' = <<>>
    /\ ti' = 0
    /\ report' = NoReport
    /\ pc' = "read"
    /\ UNCHANGED <<line, sentences, norm, cfg, last_gpgga, prevOut>>

\* main, line 808, process_gps_file and read_gps_file up to line 443: the next
\* file is opened with an empty Track and no quality fragment; the locals of
\* the previous call of process_gps_file are gone.
OpenFile ==
    /\ pc = "main"
    /\ fileNo < cfg.maxFiles
    /\ fileNo' = fileNo + 1
    /\ points' = <<>>
    /\ last_gpgga' = None
    /\ scan' = <<>>
    /\ src' = <<>>
    /\ nlines' = 0
    /\ orig' = <<>>
    /\ runs' = 0
    /\ stops' = <<>>
    /\ turns' = <<>>
    /\ ti' = 0
    /\ report' = NoReport
    /\ pc' = "read"
    /\ UNCHANGED <<line, sentences, norm, cfg, prevOut>>

\* the locals of read_gps_file after one iteration
Scanned(acc) ==
    /\ points' = acc.points
    /\ last_gpgga' = acc.last
    /\ scan' = acc.scan
    /\ src' = acc.src

\* read_gps_file, lines 444-477: the file yields one more line
ReadLine ==
    /\ pc = "read"
    /\ nlines < cfg.maxLines
    /\ \E raw \in InputLines(cfg.input, nlines) :
          Scanned(ScanLine([points |-> points, last |-> last_gpgga,
                            scan |-> scan, src |-> src], raw))
    /\ nlines' = nlines + 1
    /\ UNCHANGED <<pc, fileNo, line, sentences, orig, runs, stops, turns, ti, norm,
                   report, cfg, prevOut>>

\* read_gps_file, lines 479-484: end of file, the file is closed and the Track
\* is returned
EndOfFile ==
    /\ pc = "read"
    /\ pc' = "trim"
    /\ nlines' = 0
    /\ UNCHANGED <<fileNo, line, sentences, scan, src, points, last_gpgga, orig, runs,
                   stops, turns, ti, norm, report, cfg, prevOut>>

\* process_gps_file, line 781; the history of the scan ends here
Trim ==
    /\ pc = "trim"
    /\ orig' = points
    /\ points' = trim_stationary_edges(points)
    /\ pc' = "outliers"
    /\ scan' = <<>>
    /\ src' = <<>>
    /\ UNCHANGED <<fileNo, line, sentences, last_gpgga, runs, stops, turns,
                   ti, norm, report, nlines, cfg, prevOut>>

\* process_gps_file, line 784
Outliers ==
    /\ pc = "outliers"
    /\ orig' = points
    /\ points' = filter_position_outliers(points, 200)
    /\ runs' = 1
    /\ pc' = "quality"
    /\ UNCHANGED <<fileNo, line, sentences, scan, src, last_gpgga, stops, turns,
                   ti, norm, report, nlines, cfg, prevOut>>

\* process_gps_file, line 786
Quality ==
    /\ pc = "quality"
    /\ orig' = points
    /\ points' = filter_by_quality(points, Fin(3 * One), 4, TRUE)
    /\ pc' = "detect"
    /\ UNCHANGED <<fileNo, line, sentences, scan, src, last_gpgga, runs, stops, turns,
                   ti, norm, report, nlines, cfg, prevOut>>

\* detect_stops_and_turns, lines 615-633: the first loop
DetectStops ==
    /\ pc = "detect"
    /\ stops' = StopsLoop(points, 0)
    /\ turns' = <<>>
    /\ ti' = window_size
    /\ pc' = "turns"
    /\ UNCHANGED <<fileNo, line, sentences, scan, src, points, last_gpgga, orig, runs,
                   norm, report, nlines, cfg, prevOut>>

\* detect_stops_and_turns, lines 635-657: one iteration of the second loop, up
\* to a continue or to the call of angle_difference
TurnIter ==
    /\ pc = "turns"
    /\ ti < Len(points)
    /\ IF ReachesAngle(points, ti)
       THEN LET moving_points == MovingPoints(Window(points, ti))
            IN  /\ norm' = [angle |-> Val(moving_points[1].heading),
                            prev |-> Fin(0),
                            curr |-> Val(moving_points[Len(moving_points)].heading),
                            tick |-> 0]
                /\ pc' = "norm_prev"
                /\ ti' = ti
       ELSE /\ ti' = ti + 1
            /\ UNCHANGED <<pc, norm>>
    /\ UNCHANGED <<fileNo, line, sentences, scan, src, points, last_gpgga, orig, runs,
                   stops, turns, report, nlines, cfg, prevOut>>

\* whether one of the two loops of normalize_angle runs its body once more
NormalizeLoops(angle) == FLt(angle, Fin(0)) \/ FGe(angle, Fin(360 * One))

\* normalize_angle, lines 492-495: one execution of a loop body.  The second
\* loop never brings the angle below 0, so the first loop's test decides which
\* body runs.  tick is the parity of the bodies run.
NormalizeStep ==
    /\ pc \in {"norm_prev", "norm_curr"}
    /\ NormalizeLoops(norm.angle)
    /\ norm' = [norm EXCEPT
                   !.angle = IF FLt(norm.angle, Fin(0))
                             THEN FAdd(norm.angle, Fin(360 * One))
                             ELSE FSub(norm.angle, Fin(360 * One)),
                   !.tick = 1 - norm.tick]
    /\ UNCHANGED <<pc, fileNo, line, sentences, scan, src, points, last_gpgga, orig,
                   runs, stops, turns, ti, report, nlines, cfg, prevOut>>

\* angle_difference, lines 504-506: prev is normalized, curr is next
NormalizePrevReturn ==
    /\ pc = "norm_prev"
    /\ ~NormalizeLoops(norm.angle)
    /\ norm' = [norm EXCEPT !.prev = norm.angle, !.angle = norm.curr, !.tick = 0]
    /\ pc' = "norm_curr"
    /\ UNCHANGED <<fileNo, line, sentences, scan, src, points, last_gpgga, orig,
                   runs, stops, turns, ti, report, nlines, cfg, prevOut>>

\* angle_difference, lines 509-516, and detect_stops_and_turns, lines 659-669
AngleReturn ==
    /\ pc = "norm_curr"
    /\ ~NormalizeLoops(norm.angle)
    /\ turns' = MarkTurn(turns, ti, WrapDiff(norm.prev, norm.angle))
    /\ ti' = ti + 1
    /\ norm' = NormIdle
    /\ pc' = "turns"
    /\ UNCHANGED <<fileNo, line, sentences, scan, src, points, last_gpgga, orig,
                   runs, stops, report, nlines, cfg, prevOut>>

\* detect_stops_and_turns, line 671: the second loop is over
TurnsDone ==
    /\ pc = "turns"
    /\ ti >= Len(points)
    /\ pc' = "duration"
    /\ UNCHANGED <<fileNo, line, sentences, scan, src, points, last_gpgga, orig,
                   runs, stops, turns, ti, norm, report, nlines, cfg, prevOut>>

\* process_gps_file, line 797 (generate_kml, lines 791-794, only reads)
Duration ==
    /\ pc = "duration"
    /\ report' = calculate_trip_duration(points)
    /\ pc' = "main"
    /\ UNCHANGED <<fileNo, line, sentences, scan, src, points, last_gpgga, orig,
                   runs, stops, turns, ti, norm, nlines, cfg, prevOut>>

\* main, lines 808-809: no file is left
MainReturn ==
    /\ pc = "main"
    /\ fileNo = cfg.maxFiles
    /\ pc' = "exit"
    /\ UNCHANGED <<fileNo, line, sentences, scan, src, points, last_gpgga, orig,
                   runs, stops, turns, ti, norm, report, nlines, cfg, prevOut>>

\* the state before anything ran, at position p with Track pts and line ln
Start(p, ln, pts, c) ==
    /\ pc = p
    /\ fileNo = 0
    /\ line = ln
    /\ sentences = <<>>
    /\ scan = <<>>
    /\ src = <<>>
    /\ points = pts
    /\ last_gpgga = None
    /\ orig = <<>>
    /\ runs = 0
    /\ stops = <<>>
    /\ turns = <<>>
    /\ ti = 0
    /\ norm = NormIdle
    /\ report = NoReport
    /\ nlines = 0
    /\ cfg = c
    /\ prevOut = <<>>

\* how many lines a file of the ingestion runs holds at most
MaxLines == 3

\* how many files main finds at most
MaxFiles == 2

InitIngest ==
    Start("main", <<>>, <<>>,
          [input |-> "ingest", maxLines |-> MaxLines, maxFiles |-> MaxFiles])

NextIngest ==
    \/ OpenFile
    \/ ReadLine
    \/ EndOfFile
    \/ Trim
    \/ Outliers
    \/ Quality
    \/ DetectStops
    \/ TurnsDone
    \/ Duration
    \/ MainReturn

\* Files of at most MaxLines lines drawn from IngestLines, processed one after
\* another; no Track is long enough for the second loop of the detector.
SpecIngest == InitIngest /\ [][NextIngest]_vars

---------------------------------------------------------------------------
(* Ingestion: claims C1, C8, C10 *)

\* the Track is the one read_gps_file builds or has just returned
Ingesting == pc \in {"read", "trim"}

RECURSIVE GgaOfScanTo(_, _)
\* what each of the first n sentences of a scan decodes to as a $GPGGA
\* sentence: None for a sentence of another kind and for one parse_gpgga rejects
GgaOfScanTo(sc, n) ==
    IF n = 0 THEN <<>>
    ELSE Append(GgaOfScanTo(sc, n - 1),
                IF StartsWith(sc[n], TagGPGGA) THEN parse_gpgga(sc[n]) ELSE None)

GgaOfScan(sc) == GgaOfScanTo(sc, Len(sc))

\* the indexes of the $GPGGA sentences decoded before sentence n of the scan
DecodedGgaBefore(ggas, n) == {j \in 1..(n - 1) : ~IsNone(ggas[j])}

MaxOf(S) == CHOOSE x \in S : \A y \in S : y <= x

\* the quality keys of the fix p are those of the fragment gga
QualityFrom(p, gga) ==
    /\ p.hdop = gga.hdop
    /\ p.sats = Some(gga.sats)
    /\ p.fix = Some(gga.fix)

\* the quality keys of the fix p are those of the last of the fragments at the
\* indexes G, and absent when G is empty
QualityAsOf(p, ggas, G) ==
    IF G = {}
    THEN IsNone(p.hdop) /\ IsNone(p.sats) /\ IsNone(p.fix)
    ELSE QualityFrom(p, Val(ggas[MaxOf(G)]))

FlowsForward(pts, from, ggas) ==
    \A k \in 1..Len(pts) : QualityAsOf(pts[k], ggas, DecodedGgaBefore(ggas, from[k]))

\* C1: while a file is ingested and when its Track is returned, the hdop, sats
\* and fix of every Fix are those of the last $GPGGA sentence decoded before
\* the Fix's own $GPRMC sentence in the scan of this file, and are absent when
\* the scan of this file holds no such sentence before it.
C1_QualityFlowsForward == Ingesting => FlowsForward(points, src, GgaOfScan(scan))

\* a fix of pts has the quality of an earlier fragment although a different
\* fragment was decoded after the fix
KeptEarlierQuality(pts, from, ggas) ==
    \E k \in 1..Len(pts) :
        /\ ~IsNone(pts[k].sats)
        /\ \E j \in (from[k] + 1)..Len(ggas) :
              ~IsNone(ggas[j]) /\ ~QualityFrom(pts[k], Val(ggas[j]))

\* C1 witness: in the second file a Track is returned that holds a Fix with the
\* quality of an earlier fragment although a different fragment was decoded
\* after it, and a Fix without quality.
C1_Witness ==
    /\ pc = "trim"
    /\ fileNo = 2
    /\ KeptEarlierQuality(points, src, GgaOfScan(scan))
    /\ \E k \in 1..Len(points) : IsNone(points[k].sats)

\* C8: every Fix that leaves ingestion has speed >= 0 and a heading that is
\* absent or in [0, 360) (its lat and lon are present by construction of the
\* dict).
C8_FixFieldsInRange ==
    Ingesting =>
        \A k \in 1..Len(points) :
            /\ FGe(points[k].speed, Fin(0))
            /\ \/ IsNone(points[k].heading)
               \/ /\ FGe(Val(points[k].heading), Fin(0))
                  /\ FLt(Val(points[k].heading), Fin(360 * One))

Core(p) ==
    [lat |-> p.lat, lon |-> p.lon, speed |-> p.speed, heading |-> p.heading,
     datetime |-> p.datetime]

\* the fix a decoded $GPRMC sentence adds to the Track: data is what
\* parse_gprmc returned
FixOf(data) == IF IsNone(data) THEN <<>> ELSE <<Core(Val(data))>>

RECURSIVE DecodedFixes(_, _)
\* the fixes the $GPRMC sentences among the first n of a scan decode to, in
\* scan order
DecodedFixes(sc, n) ==
    IF n = 0 THEN <<>>
    ELSE DecodedFixes(sc, n - 1)
             \o (IF StartsWith(sc[n], TagGPRMC) THEN FixOf(parse_gprmc(sc[n])) ELSE <<>>)

\* C10: the Track is the sequence, in scan order, of the fixes the decoded
\* $GPRMC sentences give, each with the lat, lon, speed, heading and timestamp
\* of its own sentence.
C10_TrackIsDecodedRmc ==
    Ingesting => [k \in 1..Len(points) |-> Core(points[k])] = DecodedFixes(scan, Len(scan))

\* a fix of pts was merged with a fragment whose lat differs from the fix's
MergedWithOtherPlace(pts, from, ggas) ==
    \E k \in 1..Len(pts) :
        /\ DecodedGgaBefore(ggas, from[k]) # {}
        /\ Val(ggas[MaxOf(DecodedGgaBefore(ggas, from[k]))]).lat # pts[k].lat

\* C10 witness: a returned Track of two fixes or more, one of them merged with
\* a fragment whose lat differs from the fix's, after a scan that also held a
\* $GPRMC sentence that failed to decode and a sentence of another kind.
C10_Witness ==
    /\ pc = "trim"
    /\ Len(points) >= 2
    /\ MergedWithOtherPlace(points, src, GgaOfScan(scan))
    /\ \E j \in 1..Len(scan) :
          StartsWith(scan[j], TagGPRMC) /\ IsNone(parse_gprmc(scan[j]))

---------------------------------------------------------------------------
(* Sentence recovery on its own: claim C6 *)

\* the pieces a line of the recovery runs is made of
Tokens == {TagGPRMC, TagGPGGA, TagGP, <<"A">>, <<",">>, <<"*">>, <<" ">>}

\* how many pieces a line of the recovery runs holds at most
MaxTokens == 4

RECURSIVE TokenLines(_)
\* the lines of at most n pieces
TokenLines(n) ==
    IF n = 0 THEN {<<>>}
    ELSE TokenLines(n - 1) \cup {l \o t : l \in TokenLines(n - 1), t \in Tokens}

\* split_double_sentences(line) is called and returns
SplitLine ==
    /\ pc = "split"
    /\ sentences' = split_double_sentences(line)
    /\ pc' = "split_done"
    /\ UNCHANGED <<fileNo, line, scan, src, points, last_gpgga, orig, runs, stops,
                   turns, ti, norm, report, nlines, cfg, prevOut>>

NoFiles == [input |-> "none", maxLines |-> 0, maxFiles |-> 0]

InitSplit == \E l \in TokenLines(MaxTokens) : Start("split", l, <<>>, NoFiles)

\* split_double_sentences applied to every line of at most MaxTokens pieces
SpecSplit == InitSplit /\ [][SplitLine]_vars

Markers == SortedSeq(MarkerStarts(line))

EndsWith(s, c) == s # <<>> /\ s[Len(s)] = c

\* t is seg cut at its end, and only characters of cutset were cut
CutFrom(t, seg, cutset) ==
    /\ Len(t) <= Len(seg)
    /\ SubSeq(seg, 1, Len(t)) = t
    /\ \A k \in (Len(t) + 1)..Len(seg) : seg[k] \in cutset

\* a line with one marker comes back as it is
OneMarkerUnchanged == Len(Markers) = 1 => sentences = <<line>>

\* a line with two markers gives two non-empty sentences, in line order, each
\* beginning with its own marker
TwoMarkersTwoSentences ==
    Len(Markers) = 2 =>
        /\ Len(sentences) = 2
        /\ StartsWith(sentences[1], SubSeq(line, Markers[1], Markers[1] + 5))
        /\ StartsWith(sentences[2], SubSeq(line, Markers[2], Markers[2] + 5))
        /\ CutFrom(sentences[1], SubSeq(line, Markers[1], Markers[2] - 1),
                   {"*"} \cup Whitespace)
        /\ CutFrom(sentences[2], SubSeq(line, Markers[2], Len(line)),
                   {"*"} \cup Whitespace)

\* C6 as stated: one marker gives the line itself; two markers give two
\* sentences in line order, each beginning with its marker, and neither ends
\* with '*'.
C6_EachStrippedOfStar ==
    pc = "split_done" =>
        /\ OneMarkerUnchanged
        /\ TwoMarkersTwoSentences
        /\ Len(Markers) = 2 => \A k \in 1..2 : ~EndsWith(sentences[k], "*")

\* C6 amended: one marker gives the line itself; two markers give two
\* sentences in line order, each beginning with its marker; the first is its
\* segment (up to the second marker) with the trailing '*' removed and then
\* the whitespace around it, so it ends with '*' only when whitespace followed
\* that '*'; the last is the rest of the line with only the whitespace around
\* it removed, a trailing '*' kept.
C6_FirstStrippedLastKept ==
    pc = "split_done" =>
        /\ OneMarkerUnchanged
        /\ TwoMarkersTwoSentences
        /\ Len(Markers) = 2 =>
              /\ \A k \in 1..2 : sentences[k][Len(sentences[k])] \notin Whitespace
              /\ EndsWith(sentences[1], "*") =>
                    line[Markers[1] + Len(sentences[1])] \in Whitespace
              /\ CutFrom(sentences[2], SubSeq(line, Markers[2], Len(line)), Whitespace)

\* C6 witness: a line of two markers, each followed by '*', was split, and the
\* last sentence still ends with '*'.
C6_Witness ==
    /\ pc = "split_done"
    /\ Len(Markers) = 2
    /\ line[Markers[2] - 1] = "*"
    /\ EndsWith(line, "*")
    /\ Len(sentences) = 2
    /\ EndsWith(sentences[2], "*")

---------------------------------------------------------------------------
(* Tracks handed to one stage on its own *)

\* 43 deg 08.4726' N and 77 deg 26.4348' W, where the model's tracks lie
BaseLat == 43 * 60 * One + 84726

BaseLon == -(77 * 60 * One + 264348)

\* a fix dlat units north of the base, without quality keys
Pt(dlat, speed, heading, dt) ==
    [lat |-> BaseLat + dlat, lon |-> BaseLon, speed |-> speed, heading |-> heading,
     datetime |-> dt, hdop |-> None, sats |-> None, fix |-> None]

RECURSIVE SeqsUpTo(_, _)
\* the sequences of at most n elements of S
SeqsUpTo(S, n) ==
    IF n = 0 THEN {<<>>}
    ELSE SeqsUpTo(S, n - 1) \cup {Append(q, x) : q \in SeqsUpTo(S, n - 1), x \in S}

RECURSIVE SetsUpTo(_, _)
\* the subsets of S of at most n elements
SetsUpTo(S, n) ==
    IF n = 0 THEN {{}}
    ELSE SetsUpTo(S, n - 1) \cup {Q \cup {x} : Q \in SetsUpTo(S, n - 1), x \in S}

\* 2021-01-01T00:00:00
T0 == MkDatetime(2021, 1, 1, 0, 0, 0)

---------------------------------------------------------------------------
(* Edge trim on its own: claim C3 *)

\* how many fixes a Track of the trim runs holds at most
MaxTrimLen == 5

\* speeds of 0, 0.9999, 1.0 and 2.0 knots
TrimSpeeds == {Fin(0), Fin(One - 1), Fin(One), Fin(2 * One)}

\* the fix at index k (from 1) lies k units north: no two fixes of a Track are equal
TrimTracks ==
    {[k \in 1..Len(q) |-> Pt(k, q[k], None, None)] : q \in SeqsUpTo(TrimSpeeds, MaxTrimLen)}

InitTrim == \E t \in TrimTracks : Start("trim", <<>>, t, NoFiles)

\* trim_stationary_edges applied to every Track of TrimTracks
SpecTrim == InitTrim /\ [][Trim]_vars

MinOf(S) == CHOOSE x \in S : \A y \in S : x <= y

MovingIndexes(pts) == {k \in 1..Len(pts) : FGe(pts[k].speed, Fin(One))}

\* C3: edge trim returns the slice of its input from the first to the last
\* fix of speed >= 1.0 knot, both included, and the input itself when no fix
\* has speed >= 1.0 (the empty Track included).
C3_TrimIsMovingSlice ==
    pc = "outliers" =>
        IF MovingIndexes(orig) = {} THEN points = orig
        ELSE points = SubSeq(orig, MinOf(MovingIndexes(orig)), MaxOf(MovingIndexes(orig)))

\* C3 witness: a Track that begins and ends with stationary fixes was trimmed
\* at both ends and kept a stationary fix between two moving ones.
C3_Witness ==
    /\ pc = "outliers"
    /\ Len(orig) = 5
    /\ MovingIndexes(orig) = {2, 4}
    /\ Len(points) = 3
    /\ points[2] = orig[3]

---------------------------------------------------------------------------
(* Outlier rejection on its own: claim C2 *)

\* how many fixes a Track of the outlier runs holds at most
MaxOutlierLen == 4

\* At 200 km/h a fix may lie up to 299 units from the last accepted one after
\* 1 s and up to 599 after 2 s: a fix 300 units away is too far after 1 s and
\* near enough after 2 s.  Timestamps: absent, T0, T0 + 1, T0 + 2.
OutlierFixes ==
    {Pt(d, Fin(6 * One), None, t) :
        d \in {0, 300}, t \in {None, Some(T0), Some(T0 + 1), Some(T0 + 2)}}

OutlierTracks == SeqsUpTo(OutlierFixes, MaxOutlierLen)

InitOutlier == \E t \in OutlierTracks : Start("outliers", <<>>, t, NoFiles)

\* filter_position_outliers is applied to the Track it returned
OutliersAgain ==
    /\ pc = "quality"
    /\ runs = 1
    /\ prevOut' = points
    /\ points' = filter_position_outliers(points, 200)
    /\ runs' = 2
    /\ UNCHANGED <<pc, fileNo, line, sentences, scan, src, last_gpgga, orig, stops,
                   turns, ti, norm, report, nlines, cfg>>

\* filter_position_outliers applied to every Track of OutlierTracks, and then
\* to its own result
SpecOutlier == InitOutlier /\ [][Outliers \/ OutliersAgain]_vars

\* C2: outlier rejection applied to its own output returns that output.
C2_OutliersIdempotent == runs = 2 => points = prevOut

\* C2 witness: the first run dropped a fix of a Track that holds a fix without
\* timestamp and a timestamp that goes backwards; the second run has returned.
C2_Witness ==
    /\ runs = 2
    /\ Len(prevOut) < Len(orig)
    /\ Len(prevOut) >= 3
    /\ \E k \in 1..Len(prevOut) : IsNone(prevOut[k].datetime)
    /\ \E k \in 1..(Len(orig) - 1) :
          /\ ~IsNone(orig[k].datetime) /\ ~IsNone(orig[k + 1].datetime)
          /\ Val(orig[k + 1].datetime) < Val(orig[k].datetime)

\* the fix b, met when a was the last accepted fix, is to be accepted: one of
\* the two has no timestamp, or time has passed and the speed the two imply is
\* at most 200 km/h
Admissible(a, b) ==
    \/ IsNone(a.datetime) \/ IsNone(b.datetime)
    \/ /\ Val(b.datetime) - Val(a.datetime) > 0
       /\ haversine_distance(a.lat, a.lon, b.lat, b.lon)
              <= (Val(b.datetime) - Val(a.datetime)) * 200 * KmhUnits

\* K with n added when fix n is admissible after the last fix of K
WithCandidate(pts, K, n) == IF Admissible(pts[MaxOf(K)], pts[n]) THEN K \cup {n} ELSE K

RECURSIVE AcceptedTo(_, _)
\* the indexes, among the first n, of the fixes to accept: the first fix, and
\* every fix admissible after the last accepted one before it
AcceptedTo(pts, n) ==
    IF n = 0 THEN {}
    ELSE IF n = 1 THEN {1}
    ELSE WithCandidate(pts, AcceptedTo(pts, n - 1), n)

\* out holds the fixes of inp at the indexes K, in the order of inp
IsSelection(out, inp, K) ==
    /\ Len(out) = Cardinality(K)
    /\ \A k \in 1..Len(out) : out[k] = inp[SortedSeq(K)[k]]

\* C11: outlier rejection tests each candidate against the last accepted fix,
\* never a rejected one: its output is the input's first fix followed by every
\* fix admissible after the last fix accepted before it, in input order; so
\* the first fix is always kept, and any two adjacent fixes of the output that
\* both have timestamps are more than 0 s apart and imply at most 200 km/h.
C11_ComparesWithLastAccepted ==
    (pc = "quality" /\ runs = 1) =>
        /\ IsSelection(points, orig, AcceptedTo(orig, Len(orig)))
        /\ orig # <<>> => (points # <<>> /\ points[1] = orig[1])
        /\ \A k \in 1..(Len(points) - 1) :
              (~IsNone(points[k].datetime) /\ ~IsNone(points[k + 1].datetime))
                  => Admissible(points[k], points[k + 1])

\* C11 witness: a fix was rejected, and the fix after it was accepted, as it is
\* admissible after the last accepted fix, although it is not admissible after
\* the rejected one; a fix without timestamp was accepted.
C11_Witness ==
    /\ pc = "quality" /\ runs = 1
    /\ Len(orig) >= 4
    /\ \E i \in 2..(Len(orig) - 1) :
          /\ i \notin AcceptedTo(orig, Len(orig))
          /\ (i + 1) \in AcceptedTo(orig, Len(orig))
          /\ ~Admissible(orig[i], orig[i + 1])
    /\ \E k \in 2..Len(points) : IsNone(points[k].datetime)

---------------------------------------------------------------------------
(* Quality filter on its own: claim C12 *)

\* how many fixes a Track of the quality runs holds at most
MaxQualityLen == 2

\* hdop absent, 3.0 or 3.0001; sats absent, 3 or 4; fix absent, 0 or 1
QualityFixes ==
    {[Pt(0, Fin(6 * One), None, None) EXCEPT !.hdop = h, !.sats = n, !.fix = f] :
        h \in {None, Some(Fin(3 * One)), Some(Fin(3 * One + 1))},
        n \in {None, Some(3), Some(4)},
        f \in {None, Some(0), Some(1)}}

QualityTracks == SeqsUpTo(QualityFixes, MaxQualityLen)

\* the arguments filter_by_quality is called with: its defaults, the defaults
\* without the fix requirement, and a stricter pair of thresholds
QualityArgs ==
    {[hdop_threshold |-> Fin(3 * One), min_sats |-> 4, require_fix |-> TRUE],
     [hdop_threshold |-> Fin(3 * One), min_sats |-> 4, require_fix |-> FALSE],
     [hdop_threshold |-> Fin(2 * One), min_sats |-> 5, require_fix |-> TRUE]}

InitQuality ==
    \E t \in QualityTracks, a \in QualityArgs :
        Start("quality", <<>>, t,
              [input |-> "none", maxLines |-> 0, maxFiles |-> 0, args |-> a])

\* filter_by_quality called with the arguments of the run
QualityWith ==
    /\ pc = "quality"
    /\ orig' = points
    /\ points' = filter_by_quality(points, cfg.args.hdop_threshold, cfg.args.min_sats,
                                   cfg.args.require_fix)
    /\ pc' = "quality_done"
    /\ UNCHANGED <<fileNo, line, sentences, scan, src, last_gpgga, runs, stops, turns,
                   ti, norm, report, nlines, cfg, prevOut>>

\* filter_by_quality applied to every Track of QualityTracks, with each of
\* QualityArgs and as process_gps_file calls it
SpecQuality == InitQuality /\ [][Quality \/ QualityWith]_vars

\* the fix p is to be dropped: its hdop is present and above the threshold, or
\* its sats are present and below the minimum, or a fix is required and its
\* fix quality is present and below 1
Dropped(p, a) ==
    \/ ~IsNone(p.fix) /\ a.require_fix /\ Val(p.fix) < 1
    \/ ~IsNone(p.sats) /\ Val(p.sats) < a.min_sats
    \/ ~IsNone(p.hdop) /\ FGt(Val(p.hdop), a.hdop_threshold)

\* out is inp without the fixes to drop, in the order of inp
SurvivorsOf(out, inp, a) ==
    /\ IsSelection(out, inp, {k \in 1..Len(inp) : ~Dropped(inp[k], a)})
    /\ \A k \in 1..Len(inp) :
          (IsNone(inp[k].hdop) /\ IsNone(inp[k].sats) /\ IsNone(inp[k].fix))
              => ~Dropped(inp[k], a)

\* C12: the quality filter keeps, in input order, just the fixes that are not
\* to be dropped, each judged by its own hdop, sats and fix alone, whatever the
\* order of the three tests; a fix with none of the three is kept.
C12_QualityPerFix ==
    /\ pc = "quality_done" => SurvivorsOf(points, orig, cfg.args)
    /\ pc = "detect" =>
          SurvivorsOf(points, orig,
                      [hdop_threshold |-> Fin(3 * One), min_sats |-> 4, require_fix |-> TRUE])

\* C12 witness: of two fixes the first, whose hdop is within the threshold
\* and whose fix quality is absent, was dropped for its sats alone, and the
\* second, without any quality key, was kept.
C12_Witness ==
    /\ pc = "quality_done"
    /\ Len(orig) = 2 /\ Len(points) = 1
    /\ ~IsNone(orig[1].sats) /\ Val(orig[1].sats) < cfg.args.min_sats
    /\ ~IsNone(orig[1].hdop) /\ ~FGt(Val(orig[1].hdop), cfg.args.hdop_threshold)
    /\ IsNone(orig[1].fix)
    /\ IsNone(points[1].hdop) /\ IsNone(points[1].sats) /\ IsNone(points[1].fix)

---------------------------------------------------------------------------
(* Stop and turn detection on its own: claims C4, C5 *)

\* how many fixes a Track of the stop runs holds at most
MaxStopLen == 5

\* how many fixes a Track of the turn runs holds
MaxTurnLen == 22

\* how many fixes of a Track of the turn runs head -30 degrees at most
MaxTurned == 2

\* speeds of 0, 0.9999, 1.0 and 2.0 knots
StopSpeeds == {Fin(0), Fin(One - 1), Fin(One), Fin(2 * One)}

\* speeds of 0.5, 2.0, 0.3, 0.2 and 3.0 knots
ExampleSpeeds == <<Fin(5000), Fin(2 * One), Fin(3000), Fin(2000), Fin(3 * One)>>

\* every Track of up to MaxStopLen fixes with speeds of StopSpeeds, and the
\* Track with the speeds of ExampleSpeeds
StopTracks ==
    {[k \in 1..Len(q) |-> Pt(k, q[k], None, None)] :
        q \in SeqsUpTo(StopSpeeds, MaxStopLen) \cup {ExampleSpeeds}}

\* where a Track of the turn runs may hold its fix without heading: nowhere
\* (0), at its first fix or at its middle fix
AbsentAt == {0, 1, MaxTurnLen \div 2}

\* Tracks of MaxTurnLen fixes at 6 knots heading 0 degrees, but for up to
\* MaxTurned fixes that head -30 degrees and up to one fix without heading
TurnTracks ==
    {[k \in 1..MaxTurnLen |->
         Pt(k, Fin(6 * One),
            IF k = n THEN None ELSE Some(IF k \in P THEN Fin(-30 * One) ELSE Fin(0)),
            None)] :
        P \in SetsUpTo(1..MaxTurnLen, MaxTurned),
        n \in AbsentAt}

InitDetect == \E t \in StopTracks \cup TurnTracks : Start("detect", <<>>, t, NoFiles)

NextDetect ==
    \/ DetectStops
    \/ TurnIter
    \/ NormalizeStep
    \/ NormalizePrevReturn
    \/ AngleReturn
    \/ TurnsDone

\* detect_stops_and_turns applied to every Track of StopTracks and TurnTracks
SpecDetect == InitDetect /\ [][NextDetect]_vars

\* the indexes (from 0) where a stop begins
StopStarts(pts) ==
    {i \in 1..(Len(pts) - 1) :
        FLt(pts[i + 1].speed, Fin(One)) /\ FGe(pts[i].speed, Fin(One))}

\* C4: the stops are, in increasing order, the indexes i >= 1 with
\* speed[i] < 1.0 and speed[i-1] >= 1.0: index 0 is never one of them, a run of
\* stationary samples gives its first sample only, and speeds
\* [0.5, 2.0, 0.3, 0.2, 3.0] give [2].
C4_StopsAreTransitions ==
    pc \in {"turns", "duration"} =>
        /\ stops = SortedSeq(StopStarts(points))
        /\ \A k \in 1..Len(stops) : stops[k] # 0
        /\ ([k \in 1..Len(points) |-> points[k].speed] = ExampleSpeeds => stops = <<2>>)

\* C4 witness: the stops of speeds [0.5, 2.0, 0.3, 0.2, 3.0] were detected.
C4_Witness ==
    /\ pc = "turns"
    /\ [k \in 1..Len(points) |-> points[k].speed] = ExampleSpeeds
    /\ stops = <<2>>

\* a mod 360, for a finite float
Mod360(a) == Fin(a.v % (360 * One))

\* whether the window that ends at index i (from 0) satisfies the left-turn
\* threshold: it reaches the comparison and the signed difference of the
\* headings of its first and last moving fix is below -25 degrees
Qualifies(pts, i) ==
    /\ ReachesAngle(pts, i)
    /\ FLt(WrapDiff(Mod360(Val(MovingPoints(Window(pts, i))[1].heading)),
                    Mod360(Val(MovingPoints(Window(pts, i))[Len(MovingPoints(Window(pts, i)))].heading))),
           Fin(-25 * One))

QualifyingEnds(pts) == {i \in window_size..(Len(pts) - 1) : Qualifies(pts, i)}

\* C5: the flagged turn indexes increase and any two of them differ by at
\* least 10; when the window ends that satisfy the left-turn threshold all lie
\* less than 10 apart (two of them, 3 apart, for one), just one turn is
\* flagged, at the first of them.
C5_TurnsDeduplicated ==
    /\ \A a, b \in 1..Len(turns) : a < b => turns[b] - turns[a] >= window_size
    /\ (/\ pc = "duration"
        /\ QualifyingEnds(points) # {}
        /\ MaxOf(QualifyingEnds(points)) - MinOf(QualifyingEnds(points)) < window_size)
           => turns = <<MinOf(QualifyingEnds(points))>>

\* C5 witness: the windows that end at 10 and at 13, and no other, satisfied
\* the threshold, and the one turn flagged is at 10.
C5_Witness ==
    /\ pc = "duration"
    /\ QualifyingEnds(points) = {10, 13}
    /\ turns = <<10>>

---------------------------------------------------------------------------
(* angle_difference on its own: claim C13 *)

\* the headings angle_difference is called with, in degrees: both ends of the
\* range [0, 360), values half a degree around 180, values that need one or two
\* loop bodies of normalize_angle
AngleHeadings ==
    {Fin(d * One) : d \in {-540, -190, -180, -30, 0, 10, 90, 180, 270, 350, 360, 540}}
        \cup {Fin(180 * One - One \div 2), Fin(180 * One + One \div 2)}

\* angle_difference(prev_heading, curr_heading) is entered, line 504
InitAngle ==
    \E a, b \in AngleHeadings :
        /\ pc = "norm_prev"
        /\ fileNo = 0
        /\ line = <<>>
        /\ sentences = <<>>
        /\ scan = <<>>
        /\ src = <<>>
        /\ points = <<>>
        /\ last_gpgga = None
        /\ orig = <<>>
        /\ runs = 0
        /\ stops = <<>>
        /\ turns = <<>>
        /\ ti = 0
        /\ norm = [angle |-> a, prev |-> Fin(0), curr |-> b, tick |-> 0]
        /\ report = NoReport
        /\ nlines = 0
        /\ cfg = [input |-> "none", maxLines |-> 0, maxFiles |-> 0,
                  prev_heading |-> a, curr_heading |-> b]
        /\ prevOut = <<>>

\* angle_difference, lines 509-516, called on its own: the difference is
\* returned to the caller
AngleDifferenceReturn ==
    /\ pc = "norm_curr"
    /\ ~NormalizeLoops(norm.angle)
    /\ report' = [status |-> "angle_difference",
                  diff |-> WrapDiff(norm.prev, norm.angle)]
    /\ norm' = NormIdle
    /\ pc' = "angle_done"
    /\ UNCHANGED <<fileNo, line, sentences, scan, src, points, last_gpgga, orig,
                   runs, stops, turns, ti, nlines, cfg, prevOut>>

NextAngle ==
    \/ NormalizeStep
    \/ NormalizePrevReturn
    \/ AngleDifferenceReturn

\* angle_difference applied to every pair of AngleHeadings
SpecAngle == InitAngle /\ [][NextAngle]_vars

\* whether the returned difference is congruent to curr - prev modulo 360
CongruentToInputs ==
    (report.diff.v - (cfg.curr_heading.v - cfg.prev_heading.v)) % (360 * One) = 0

\* C13: for every pair of headings (a, b), angle_difference(a, b) lies in the
\* range (-180, 180] and is congruent to b - a modulo 360.
C13_DiffInHalfOpenRange ==
    pc = "angle_done" =>
        /\ FGt(report.diff, Fin(-180 * One))
        /\ FLe(report.diff, Fin(180 * One))
        /\ CongruentToInputs

\* what angle_difference does return: a difference in [-180, 180], congruent
\* to curr - prev modulo 360, and -180 when curr is half a turn behind prev
AngleDifferenceClosedRange ==
    pc = "angle_done" =>
        /\ FGe(report.diff, Fin(-180 * One))
        /\ FLe(report.diff, Fin(180 * One))
        /\ CongruentToInputs
        /\ (cfg.prev_heading = Fin(180 * One) /\ cfg.curr_heading = Fin(0))
               => report.diff = Fin(-180 * One)

---------------------------------------------------------------------------
(* Duration estimator on its own: claim C7 *)

\* how many fixes a short Track of the duration runs holds at most
MaxDurLen == 4

\* Tracks of up to MaxDurLen fixes, each without timestamp, at T0 or at
\* T0 + 600, all at rest or all at 6 knots
ShortDurTracks ==
    {[k \in 1..Len(q) |-> Pt(k, v, None, q[k])] :
        q \in SeqsUpTo({None, Some(T0), Some(T0 + 600)}, MaxDurLen),
        v \in {Fin(0), Fin(6 * One)}}

\* Tracks of 10 and 11 fixes, all at rest or all at 6 knots, at one place or
\* a unit apart, with a timestamp every 60 s or on the first and last fix only
LongDurTracks ==
    {[k \in 1..n |->
         Pt(k * step, v, None,
            IF all THEN Some(T0 + 60 * (k - 1))
            ELSE IF k = 1 THEN Some(T0)
            ELSE IF k = n THEN Some(T0 + 600)
            ELSE None)] :
        n \in {10, 11}, step \in {0, 1}, v \in {Fin(0), Fin(6 * One)}, all \in BOOLEAN}

\* the speeds, in knots, of the 5 samples at an edge: at rest, at 6 knots, of
\* mean exactly 5.0, of mean just below 5.0, and of mean 6.0 by one sample
EdgeSpeeds ==
    {[j \in 1..5 |-> Fin(0)],
     [j \in 1..5 |-> Fin(6 * One)],
     <<Fin(10 * One), Fin(0), Fin(5 * One), Fin(5 * One), Fin(5 * One)>>,
     <<Fin(10 * One), Fin(0), Fin(5 * One), Fin(5 * One), Fin(5 * One - 1)>>,
     <<Fin(0), Fin(0), Fin(0), Fin(0), Fin(30 * One)>>}

\* how far, in units of 1/600000 degree of latitude (0.185 m), the fixes of an
\* edge lie apart: not at all, 0.93 m and 1.11 m
EdgeMoves == {0, 5, 6}

\* Tracks of 10, 11 and 15 fixes, timestamped on the first and last fix: the
\* first 5 fixes have the speeds s, the last 5 the speeds e, those between are
\* at rest; the first fix lies ds before the inner ones, the last de after
GapTracks ==
    {[k \in 1..n |->
         Pt(IF k = 1 THEN 0 ELSE IF k = n THEN ds + de ELSE ds,
            IF k <= 5 THEN s[k] ELSE IF k > n - 5 THEN e[k - (n - 5)] ELSE Fin(0),
            None,
            IF k = 1 THEN Some(T0) ELSE IF k = n THEN Some(T0 + 600) ELSE None)] :
        n \in {10, 11, 15}, s \in EdgeSpeeds, e \in EdgeSpeeds,
        ds \in EdgeMoves, de \in EdgeMoves}

InitDuration ==
    \E t \in ShortDurTracks \cup LongDurTracks \cup GapTracks :
        Start("duration", <<>>, t, NoFiles)

\* calculate_trip_duration applied to every Track of the two families
SpecDuration == InitDuration /\ [][Duration]_vars

Timestamped(pts) == {k \in 1..Len(pts) : ~IsNone(pts[k].datetime)}

\* C7: the recorded duration is the timestamp of the last timestamped fix
\* minus that of the first, negative or not; without a timestamped fix, or
\* without any fix, the duration is reported unavailable.
C7_DurationIsLastMinusFirst ==
    (pc = "main" /\ report # NoReport) =>
        IF Timestamped(points) = {}
        THEN report.status = (IF points = <<>> THEN "no_points" ELSE "unavailable")
        ELSE /\ report.status = "ok"
             /\ report.total_seconds =
                    Val(points[MaxOf(Timestamped(points))].datetime)
                        - Val(points[MinOf(Timestamped(points))].datetime)

\* C7 witness: a Track timestamped on its first fix (2021-01-01T00:00:00) and
\* its last fix (00:10:00) only was reported with 600 seconds.
C7_Witness ==
    /\ pc = "main"
    /\ Len(points) >= 10
    /\ Timestamped(points) = {1, Len(points)}
    /\ points[1].datetime = Some(T0)
    /\ report.status = "ok"
    /\ report.total_seconds = 600

RECURSIVE SpeedSum(_, _, _)
\* the sum of the speeds of the fixes a..b of a Track of finite speeds
SpeedSum(pts, a, b) ==
    IF a > b THEN 0 ELSE pts[a].speed.v + SpeedSum(pts, a + 1, b)

\* whether the mean speed of the fixes a..b is at least 5.0 knots
MeanAtLeastFive(pts, a, b) == a <= b /\ SpeedSum(pts, a, b) >= 5 * One * (b - a + 1)

\* whether the fixes a and b exist and lie more than 1 metre apart
MoreThanAMetre(pts, a, b) ==
    /\ a >= 1
    /\ b <= Len(pts)
    /\ haversine_distance(pts[a].lat, pts[a].lon, pts[b].lat, pts[b].lon) > MetreUnits

\* the gap of the start edge: the first up to 5 samples, index 0 and index 9
StartGapOf(pts) ==
    IF /\ MeanAtLeastFive(pts, 1, IF Len(pts) < 5 THEN Len(pts) ELSE 5)
       /\ MoreThanAMetre(pts, 1, 10)
    THEN 5 ELSE 0

\* the gap of the end edge: the last up to 5 samples, index -10 and index -1
EndGapOf(pts) ==
    IF /\ MeanAtLeastFive(pts, IF Len(pts) < 5 THEN 1 ELSE Len(pts) - 4, Len(pts))
       /\ MoreThanAMetre(pts, Len(pts) - 9, Len(pts))
    THEN 5 ELSE 0

\* C14: whenever a duration is reported, the start edge has a gap of exactly
\* 5 seconds when the mean speed of up to the first 5 samples is >= 5.0 knots
\* and index 0 and index 9 lie more than 1 metre apart, and 0 otherwise; the
\* end edge likewise with the last 5 samples and indexes -10 and -1; the
\* estimated actual duration is the recorded one plus the two gaps, so it
\* exceeds the recorded one by 0, 5 or 10 seconds (by 0: no estimate is given).
C14_GapPerEdge ==
    (pc = "main" /\ report # NoReport /\ report.status = "ok") =>
        /\ report.estimated_start_gap = StartGapOf(points)
        /\ report.estimated_end_gap = EndGapOf(points)
        /\ report.estimated_start_gap + report.estimated_end_gap \in {0, 5, 10}
        /\ report.estimated_total_seconds =
               IF StartGapOf(points) + EndGapOf(points) > 0
               THEN Some(report.total_seconds + StartGapOf(points) + EndGapOf(points))
               ELSE None

\* C14 witness: a Track of 11 fixes whose first 5 samples have mean speed
\* exactly 5.0 knots and whose last 5 are at 6 knots, index 0 and index 9
\* lying 1.11 m apart and index -10 and index -1 0.93 m, was reported with a
\* start gap of 5 s, no end gap, and 605 s for the recorded 600 s.
C14_Witness ==
    /\ pc = "main"
    /\ Len(points) = 11
    /\ SpeedSum(points, 1, 5) = 5 * One * 5
    /\ points[1].speed # points[2].speed
    /\ SpeedSum(points, 7, 11) = 6 * One * 5
    /\ points[10].lat - points[1].lat = 6
    /\ points[11].lat - points[2].lat = 5
    /\ report.status = "ok"
    /\ report.total_seconds = 600
    /\ report.estimated_start_gap = 5
    /\ report.estimated_end_gap = 0
    /\ report.estimated_total_seconds = Some(605)

---------------------------------------------------------------------------
(* One file through the whole pipeline: claim C9 *)

InitPipeline ==
    Start("main", <<>>, <<>>,
          [input |-> "pipeline", maxLines |-> MaxPipeLines, maxFiles |-> 1])

NextPipeline ==
    \/ OpenFile
    \/ EndOfFile
    \/ ReadLine
    \/ Trim
    \/ Outliers
    \/ Quality
    \/ DetectStops
    \/ TurnIter
    \/ NormalizeStep
    \/ NormalizePrevReturn
    \/ AngleReturn
    \/ TurnsDone
    \/ Duration
    \/ MainReturn

\* One file of at most MaxPipeLines lines.  The program is sequential: it takes
\* its next step whenever it has one.
SpecPipeline == InitPipeline /\ [][NextPipeline]_vars /\ WF_vars(NextPipeline)

\* C9: processing the file reaches its end.
C9_PipelineTerminates == <>(pc = "exit")

=============================================================================
